---- MODULE Spec2Model ----
(***************************************************************************)
(* Model of the admin/user chat broker (src/unnamed/part_000, lines        *)
(* 297-723): the registry `clients`, the operator session `adminClient`,   *)
(* the waiting queue `userQueue`, the pairing map `activeChats`, the       *)
(* transcript store `chatHistory` and the per-client outbound lanes        *)
(* `messageQueues`, driven by the WebSocket events of each connection and  *)
(* by the 50 ms timer.                                                     *)
(***************************************************************************)
EXTENDS Integers, Sequences, FiniteSets, TLC

\* ---------------------------------------------------------------- bounds
MaxIds   == 3      \* join messages handled during a run (one id each)
MaxFewIds == 2     \* the same, in the runs that carry chat or media messages
MaxHist  == 2      \* chat messages recorded during a run
MaxQueue == 2      \* entries userQueue may hold before a re-queue is cut off
NumTexts == 1      \* distinct chat texts
NumFrames == 2     \* distinct video frame payloads

\* One connection per join is enough: a connection that joins twice leaves
\* another one unused.
Conns  == 1..MaxIds
Ids    == 1..MaxIds
Texts  == 1..NumTexts
Frames == 1..NumFrames

\* `null` / `undefined`: the value of clientId before join, of adminClient
\* when no operator session exists, and of a field missing from a message.
Null == 0

UserTypes == {"admin", "user"}

VARIABLES
    readyState,     \* ws.readyState of each connection
    clientId,       \* the closure variable clientId of each connection
    nextId,         \* the next identifier generateId() returns
    clients,        \* Map id -> {id, ws, username, type}
    adminClient,    \* id of the client object held by adminClient, or Null
    userQueue,      \* array of ids
    activeChats,    \* Map id -> id
    chatHistory,    \* Map <<adminId, userId>> -> array of {from, text}
    messageQueues,  \* Map id -> array of messages, in insertion order
    sent,           \* per connection, what this step handed to ws.send
    dropped         \* what this step shifted out of a lane unsent

vars == <<readyState, clientId, nextId, clients, adminClient, userQueue,
          activeChats, chatHistory, messageQueues, sent, dropped>>

\* ------------------------------------------------------------ Map helpers
Put(f, k, v) == [x \in (DOMAIN f) \cup {k} |-> IF x = k THEN v ELSE f[x]]

Remove(f, k) == [x \in (DOMAIN f) \ {k} |-> f[x]]

EmptyMap == [x \in {} |-> Null]

\* Array helpers: indexOf (1-based, 0 when absent) and splice(i, 1).
IndexOf(s, x) ==
    IF \E i \in 1..Len(s) : s[i] = x
    THEN CHOOSE i \in 1..Len(s) : s[i] = x /\ \A j \in 1..(i - 1) : s[j] # x
    ELSE 0

Splice(s, i) == [j \in 1..(Len(s) - 1) |-> IF j < i THEN s[j] ELSE s[j + 1]]

\* messageQueues is a Map iterated in insertion order: a sequence of
\* [id, queue] entries, at most one per id.
mqHas(mq, id) == \E i \in 1..Len(mq) : mq[i].id = id

mqIndex(mq, id) == CHOOSE i \in 1..Len(mq) : mq[i].id = id

mqGet(mq, id) == mq[mqIndex(mq, id)].queue

mqSet(mq, id, q) ==
    IF mqHas(mq, id)
    THEN [mq EXCEPT ![mqIndex(mq, id)].queue = q]
    ELSE Append(mq, [id |-> id, queue |-> q])

\* The removal that leaves the entry of the client in place.
mqKeep(mq, id) == mq

mqDelete(mq, id) == IF mqHas(mq, id) THEN Splice(mq, mqIndex(mq, id)) ELSE mq

\* The outbound effects of one handler run: the lanes, the transport writes
\* and the messages shifted out of a lane.
NoSent == [c \in Conns |-> <<>>]

StartIO == [mq |-> messageQueues, sent |-> NoSent, dropped |-> {}]

IsOpen(cl, rs, id) == id \in DOMAIN cl /\ rs[cl[id].ws] = "OPEN"

\* JSON.stringify(message) at the time of the transport write: a chatStarted
\* message holds the history array by reference (or a fresh empty array when
\* the key had no history at selection time).
Stringify(message, hist) ==
    IF message.type = "chatStarted"
    THEN [type |-> "chatStarted", with |-> message.with,
          messages |-> IF message.messages = <<>> THEN <<>>
                       ELSE hist[message.messages]]
    ELSE message

\* ws.send(data) on a socket that is not OPEN sends nothing.
wsSend(io, rs, c, data) ==
    IF rs[c] = "OPEN" THEN [io EXCEPT !.sent[c] = Append(@, data)] ELSE io

\* The test that finds the priority flag on no message.
neverPriority(message) == FALSE

HasPriority(message) ==
    "priority" \in DOMAIN message /\ message.priority = TRUE

\* The push without the shift: the lane grows.
pushNoShift(queue, message) == Append(queue, message)

\* The push that keeps a pending entry and loses the new one.
pushOldest(queue, message) ==
    IF Len(queue) >= 1 THEN queue ELSE Append(queue, message)

\* Lines 339-343: the lane after the push, the oldest entry shifted out first.
pushLatest(queue, message) ==
    Append(IF Len(queue) >= 1 THEN Tail(queue) ELSE queue, message)

Evicted(queue, id) ==
    IF Len(queue) >= 1 THEN {[id |-> id, msg |-> Head(queue)]} ELSE {}

sendToClient(io, cl, rs, hist, id, message) ==
    IF IsOpen(cl, rs, id)
    THEN IF HasPriority(message)
         THEN wsSend(io, rs, cl[id].ws, Stringify(message, hist))
         ELSE LET queue == IF mqHas(io.mq, id) THEN mqGet(io.mq, id) ELSE <<>>
              IN  [mq |-> mqSet(io.mq, id, pushLatest(queue, message)),
                   sent |-> io.sent,
                   dropped |-> io.dropped \cup Evicted(queue, id)]
    ELSE io

\* processMessageQueues over the entries from index i on.
RECURSIVE flushFrom(_, _, _, _, _)
flushFrom(io, cl, rs, hist, i) ==
    IF i > Len(io.mq) THEN io
    ELSE LET e == io.mq[i]
         IN  IF IsOpen(cl, rs, e.id) /\ Len(e.queue) > 0
             THEN flushFrom(
                      wsSend([io EXCEPT !.mq[i].queue = Tail(e.queue)],
                             rs, cl[e.id].ws, Stringify(Head(e.queue), hist)),
                      cl, rs, hist, i + 1)
             ELSE flushFrom(io, cl, rs, hist, i + 1)

\* The timer callback that flushes nothing.
flushNone(io, cl, rs, hist) == io

processMessageQueues(io, cl, rs, hist) == flushFrom(io, cl, rs, hist, 1)

\* The roster message; its `users` array is rebuilt on every call and read
\* by no handler, and is not carried here.
updateUserList(io, cl, rs, hist, admin, ac) ==
    IF admin = Null THEN io
    ELSE sendToClient(io, cl, rs, hist, admin, [type |-> "userList"])

RECURSIVE updateQueueFrom(_, _, _, _, _, _)
updateQueueFrom(io, cl, rs, hist, uq, index) ==
    IF index > Len(uq) THEN io
    ELSE updateQueueFrom(
             sendToClient(io, cl, rs, hist, uq[index],
                          [type |-> "queuePosition", position |-> index]),
             cl, rs, hist, uq, index + 1)

updateQueue(io, cl, rs, hist, uq) == updateQueueFrom(io, cl, rs, hist, uq, 1)

\* sendToClient of each message of msgs, in order, to each id of ids.
RECURSIVE sendSeq(_, _, _, _, _, _)
sendSeq(io, cl, rs, hist, id, msgs) ==
    IF msgs = <<>> THEN io
    ELSE sendSeq(sendToClient(io, cl, rs, hist, id, Head(msgs)),
                 cl, rs, hist, id, Tail(msgs))

RECURSIVE sendEach(_, _, _, _, _, _)
sendEach(io, cl, rs, hist, ids, msgs) ==
    IF ids = {} THEN io
    ELSE LET id == CHOOSE x \in ids : \A y \in ids : x <= y
         IN  sendEach(sendSeq(io, cl, rs, hist, id, msgs),
                      cl, rs, hist, ids \ {id}, msgs)

\* The accepted connections are interchangeable until their first join:
\* they are put to use in index order.
InUse(c) == \A d \in Conns : d < c => clientId[d] # Null

\* A message or close event reaches its handler while the socket is OPEN or
\* CLOSING.
Receives(c) == readyState[c] \in {"OPEN", "CLOSING"} /\ InUse(c)

Commit(io) ==
    /\ messageQueues' = io.mq
    /\ sent' = io.sent
    /\ dropped' = io.dropped

\* ------------------------------------------------------------------ Init
\* The broker after start-up, with the connections of the run accepted
\* (wss.on('connection') only creates the closure, clientId = null).
Init ==
    /\ readyState = [c \in Conns |-> "OPEN"]
    /\ clientId = [c \in Conns |-> Null]
    /\ nextId = 1
    /\ clients = EmptyMap
    /\ adminClient = Null
    /\ userQueue = <<>>
    /\ activeChats = EmptyMap
    /\ chatHistory = EmptyMap
    /\ messageQueues = <<>>
    /\ sent = NoSent
    /\ dropped = {}

handleJoin(c, username, userType) ==
    /\ Receives(c)
    /\ nextId <= MaxIds
    /\ LET id  == nextId
           cl  == Put(clients, id, [id |-> id, ws |-> c,
                                    username |-> username, type |-> userType])
           rs  == readyState
           io1 == wsSend(StartIO, rs, c, [type |-> "welcome", userId |-> id])
       IN  /\ nextId' = nextId + 1
           /\ clientId' = [clientId EXCEPT ![c] = id]
           /\ clients' = cl
           /\ UNCHANGED <<activeChats, chatHistory>>
           /\ IF userType = "admin"
              THEN IF adminClient # Null
                   THEN /\ Commit(wsSend(io1, rs, c,
                               [type |-> "error",
                                message |-> "An admin is already connected"]))
                        /\ readyState' = [readyState EXCEPT ![c] = "CLOSING"]
                        /\ UNCHANGED <<adminClient, userQueue>>
                   ELSE /\ adminClient' = id
                        /\ Commit(updateUserList(io1, cl, rs, chatHistory,
                                                 id, activeChats))
                        /\ UNCHANGED <<readyState, userQueue>>
              ELSE IF adminClient # Null
                   THEN /\ userQueue' = Append(userQueue, id)
                        /\ Commit(updateUserList(
                               updateQueue(io1, cl, rs, chatHistory,
                                           Append(userQueue, id)),
                               cl, rs, chatHistory, adminClient, activeChats))
                        /\ UNCHANGED <<readyState, adminClient>>
                   ELSE /\ Commit(wsSend(io1, rs, c,
                               [type |-> "queuePosition", position |-> 0]))
                        /\ UNCHANGED <<readyState, adminClient, userQueue>>

\* A handler that returns before touching anything.
Ignored == Commit(StartIO) /\ UNCHANGED <<readyState, clientId, nextId, clients,
                 adminClient, userQueue, activeChats, chatHistory>>

\* The sender test that looks at registration only, not at the type.
anySender(c) == clientId[c] \in DOMAIN clients

\* Line 485: clients.get(clientId)?.type === 'admin'.
IsAdminSender(c) ==
    clientId[c] \in DOMAIN clients /\ clients[clientId[c]].type = "admin"

handleSelectUser(c, userId) ==
    /\ Receives(c)
    /\ IF adminClient = Null \/ ~IsAdminSender(c)
       THEN Ignored
       ELSE IF userId \notin DOMAIN clients \/ clients[userId].type # "user"
       THEN /\ Commit(sendToClient(StartIO, clients, readyState, chatHistory,
                       clientId[c],
                       [type |-> "error", message |-> "User not found"]))
            /\ UNCHANGED <<readyState, clientId, nextId, clients, adminClient,
                           userQueue, activeChats, chatHistory>>
       ELSE LET queueIndex == IndexOf(userQueue, userId)
                uq == IF queueIndex > 0 THEN Splice(userQueue, queueIndex)
                      ELSE userQueue
                ac == Put(Put(activeChats, userId, adminClient),
                          adminClient, userId)
                chatKey == <<adminClient, userId>>
                messages == IF chatKey \in DOMAIN chatHistory THEN chatKey
                            ELSE <<>>
                io1 == sendToClient(StartIO, clients, readyState, chatHistory,
                           adminClient,
                           [type |-> "chatStarted",
                            with |-> [id |-> userId,
                                      username |-> clients[userId].username,
                                      type |-> clients[userId].type],
                            messages |-> messages])
                io2 == sendToClient(io1, clients, readyState, chatHistory,
                           userId,
                           [type |-> "chatStarted",
                            with |-> [id |-> adminClient,
                                      username |-> clients[adminClient].username,
                                      type |-> clients[adminClient].type],
                            messages |-> messages])
                io3 == updateQueue(io2, clients, readyState, chatHistory, uq)
            IN  /\ userQueue' = uq
                /\ activeChats' = ac
                /\ Commit(updateUserList(io3, clients, readyState, chatHistory,
                                         adminClient, ac))
                /\ UNCHANGED <<readyState, clientId, nextId, clients,
                               adminClient, chatHistory>>

\* The store that starts the array of the key afresh on every message.
appendFresh(hist, chatKey, message) == Put(hist, chatKey, <<message>>)

\* Lines 557-560: the array of the key, created empty when missing, pushed to.
appendHistory(hist, chatKey, message) ==
    Put(hist, chatKey,
        Append(IF chatKey \in DOMAIN hist THEN hist[chatKey] ELSE <<>>,
               message))

\* The number of chat messages recorded so far.
RECURSIVE TotalLen(_, _)
TotalLen(hist, keys) ==
    IF keys = {} THEN 0
    ELSE LET k == CHOOSE x \in keys : TRUE
         IN  Len(hist[k]) + TotalLen(hist, keys \ {k})

Recorded == TotalLen(chatHistory, DOMAIN chatHistory)

\* The key that puts the sender first, whatever its type.
senderFirstKey(fromClient, toId) == <<fromClient.id, toId>>

\* Lines 550-555: the key `${adminId}-${userId}`, ordered by the sender's type.
chatKeyOf(fromClient, toId) ==
    IF fromClient.type = "admin"
    THEN <<fromClient.id, toId>>
    ELSE <<toId, fromClient.id>>

handleChatMessage(c, toId, text) ==
    /\ Receives(c)
    /\ IF clientId[c] \notin DOMAIN clients \/ toId \notin DOMAIN clients
       THEN Ignored
       ELSE LET fromClient == clients[clientId[c]]
                message == [from |-> fromClient.username, text |-> text]
                chatKey == chatKeyOf(fromClient, toId)
                hist == appendHistory(chatHistory, chatKey, message)
            IN  /\ Recorded < MaxHist
                /\ chatHistory' = hist
                /\ Commit(sendToClient(StartIO, clients, readyState, hist, toId,
                       [type |-> "message", from |-> fromClient.username,
                        text |-> text, priority |-> TRUE]))
                /\ UNCHANGED <<readyState, clientId, nextId, clients,
                               adminClient, userQueue, activeChats>>

handleEndChat(c, userId) ==
    /\ Receives(c)
    /\ IF clientId[c] \notin DOMAIN clients
       THEN Ignored
       ELSE LET fromClient == clients[clientId[c]]
                otherUserId ==
                    IF fromClient.type = "admin" THEN userId
                    ELSE IF clientId[c] \in DOMAIN activeChats
                         THEN activeChats[clientId[c]] ELSE Null
                ac == Remove(Remove(activeChats, clientId[c]), otherUserId)
                known == otherUserId # Null /\ otherUserId \in DOMAIN clients
                requeue == known /\ clients[otherUserId].type = "user"
                uq == IF requeue THEN Append(userQueue, otherUserId)
                      ELSE userQueue
                io1 == IF known
                       THEN sendSeq(StartIO, clients, readyState, chatHistory,
                                otherUserId,
                                << [type |-> "stopVideoStream"],
                                   IF requeue
                                   THEN [type |-> "chatEnded",
                                         queuePosition |-> Len(uq)]
                                   ELSE [type |-> "chatEnded"] >>)
                       ELSE StartIO
                io2 == updateQueue(io1, clients, readyState, chatHistory, uq)
            IN  /\ requeue => Len(userQueue) < MaxQueue
                /\ activeChats' = ac
                /\ userQueue' = uq
                /\ Commit(updateUserList(io2, clients, readyState, chatHistory,
                                         adminClient, ac))
                /\ UNCHANGED <<readyState, clientId, nextId, clients,
                               adminClient, chatHistory>>

handleStartVideoStream(c, userId) ==
    /\ Receives(c)
    /\ Commit(IF IsAdminSender(c)
              THEN sendToClient(StartIO, clients, readyState, chatHistory,
                                userId, [type |-> "startVideoStream"])
              ELSE StartIO)
    /\ UNCHANGED <<readyState, clientId, nextId, clients, adminClient,
                   userQueue, activeChats, chatHistory>>

handleStopVideoStream(c, userId) ==
    /\ Receives(c)
    /\ Commit(IF IsAdminSender(c)
              THEN sendToClient(StartIO, clients, readyState, chatHistory,
                                userId, [type |-> "stopVideoStream"])
              ELSE StartIO)
    /\ UNCHANGED <<readyState, clientId, nextId, clients, adminClient,
                   userQueue, activeChats, chatHistory>>

handleVideoFrame(c, toId, frame) ==
    /\ Receives(c)
    /\ Commit(IF /\ clientId[c] \in DOMAIN clients
                 /\ clients[clientId[c]].type = "user"
                 /\ toId # Null
                 /\ toId \in DOMAIN clients
              THEN sendToClient(StartIO, clients, readyState, chatHistory, toId,
                       [type |-> "videoFrame", frame |-> frame,
                        from |-> clientId[c], priority |-> FALSE])
              ELSE StartIO)
    /\ UNCHANGED <<readyState, clientId, nextId, clients, adminClient,
                   userQueue, activeChats, chatHistory>>

\* The handler that answers the sender with an error message.
replyError(c) ==
    /\ Receives(c)
    /\ Commit(wsSend(StartIO, readyState, c,
                     [type |-> "error", message |-> "Invalid message"]))
    /\ UNCHANGED <<readyState, clientId, nextId, clients, adminClient,
                   userQueue, activeChats, chatHistory>>

\* A payload JSON.parse rejects, or a message of an unknown type.
Malformed(c) ==
    /\ Receives(c)
    /\ Ignored

\* The operator's disconnect that leaves the waiting queue as it was.
keepQueue(uq) == uq

\* Lines 685-686: activeChats.clear() and userQueue.length = 0.
clearChats(ac) == EmptyMap

clearQueue(uq) == <<>>

\* handleDisconnect(id), run with the socket of the connection CLOSED.
handleDisconnect(id, rs) ==
    IF id = Null \/ id \notin DOMAIN clients
    THEN /\ Commit(StartIO)
         /\ UNCHANGED <<clients, adminClient, userQueue, activeChats>>
    ELSE LET io0 == [StartIO EXCEPT !.mq = mqDelete(messageQueues, id)]
         IN  /\ clients' = Remove(clients, id)
             /\ IF clients[id].type = "admin"
                THEN LET io1 == sendEach(io0, clients, rs, chatHistory,
                                    (DOMAIN activeChats) \ {id},
                                    << [type |-> "stopVideoStream"],
                                       [type |-> "chatEnded"] >>)
                         users == {i \in DOMAIN clients :
                                      clients[i].type = "user" /\ i # id}
                     IN  /\ adminClient' = Null
                         /\ activeChats' = clearChats(activeChats)
                         /\ userQueue' = clearQueue(userQueue)
                         /\ Commit(sendEach(io1, clients, rs, chatHistory, users,
                                << [type |-> "queuePosition",
                                    position |-> 0] >>))
                ELSE LET queueIndex == IndexOf(userQueue, id)
                         uq  == IF queueIndex > 0
                                THEN Splice(userQueue, queueIndex)
                                ELSE userQueue
                         io1 == IF queueIndex > 0
                                THEN updateQueue(io0, clients, rs, chatHistory, uq)
                                ELSE io0
                         paired == id \in DOMAIN activeChats
                         partnerId == IF paired THEN activeChats[id] ELSE Null
                         ac  == IF paired
                                THEN Remove(Remove(activeChats, id), partnerId)
                                ELSE activeChats
                         io2 == IF paired
                                THEN sendToClient(io1, clients, rs, chatHistory,
                                         partnerId, [type |-> "chatEnded"])
                                ELSE io1
                     IN  /\ userQueue' = uq
                         /\ activeChats' = ac
                         /\ Commit(updateUserList(io2, clients, rs, chatHistory,
                                                  adminClient, ac))
                         /\ UNCHANGED adminClient

\* ws.on('close')
Close(c) ==
    /\ Receives(c)
    /\ readyState' = [readyState EXCEPT ![c] = "CLOSED"]
    /\ handleDisconnect(clientId[c], [readyState EXCEPT ![c] = "CLOSED"])
    /\ UNCHANGED <<clientId, nextId, chatHistory>>

\* setInterval(processMessageQueues, 50)
Tick ==
    /\ Commit(processMessageQueues(StartIO, clients, readyState, chatHistory))
    /\ UNCHANGED <<readyState, clientId, nextId, clients, adminClient,
                   userQueue, activeChats, chatHistory>>

\* The id a message names: one generateId() has returned, or none.
Targets == {id \in Ids : id < nextId} \cup {Null}

\* The pairing scheduler: registration, pairing control, disconnects, timer.
Next ==
    \/ \E c \in Conns, t \in UserTypes : handleJoin(c, c, t)
    \/ \E c \in Conns, u \in Targets : handleSelectUser(c, u)
    \/ \E c \in Conns, u \in Targets : handleEndChat(c, u)
    \/ \E c \in Conns : Malformed(c)
    \/ \E c \in Conns : Close(c)
    \/ Tick

Spec == Init /\ [][Next]_vars

\* A join of a run that registers at most MaxFewIds clients.
JoinFew(c, t) == nextId <= MaxFewIds /\ handleJoin(c, c, t)

\* The session history store: pairing control and chat between few clients.
NextChat ==
    \/ \E c \in Conns, t \in UserTypes : JoinFew(c, t)
    \/ \E c \in Conns, u \in Targets : handleSelectUser(c, u)
    \/ \E c \in Conns, u \in Targets : handleEndChat(c, u)
    \/ \E c \in Conns, u \in Targets, t \in Texts : handleChatMessage(c, u, t)
    \/ \E c \in Conns : Close(c)
    \/ Tick

SpecChat == Init /\ [][NextChat]_vars

\* The delivery engine under media traffic.
NextMedia ==
    \/ \E c \in Conns, t \in UserTypes : JoinFew(c, t)
    \/ \E c \in Conns, u \in Targets : handleSelectUser(c, u)
    \/ \E c \in Conns, u \in Targets : handleStartVideoStream(c, u)
    \/ \E c \in Conns, u \in Targets : handleStopVideoStream(c, u)
    \/ \E c \in Conns, u \in Targets, f \in Frames : handleVideoFrame(c, u, f)
    \/ \E c \in Conns : Close(c)
    \/ Tick

SpecMedia == Init /\ [][NextMedia]_vars

\* The same, with the interval timer firing again and again.
SpecMediaFair == SpecMedia /\ WF_vars(Tick)

\* ---------------------------------------------------------------- claims
\* The pending low-priority messages of a client.
LaneIn(mq, id) == IF mqHas(mq, id) THEN mqGet(mq, id) ELSE <<>>

Lane(id) == LaneIn(messageQueues, id)

\* The same, after the step.
LaneAfter(id) == LaneIn(messageQueues', id)

Open(id) == IsOpen(clients, readyState, id)

\* Every connection has joined at most once.
OneEach ==
    \A i, j \in DOMAIN clients : clients[i].ws = clients[j].ws => i = j

IsPrefix(s, t) == Len(s) <= Len(t) /\ \A i \in 1..Len(s) : s[i] = t[i]

\* The chat and control signalling messages.
LatencySensitive ==
    {"chatStarted", "chatEnded", "queuePosition", "userList", "error",
     "startVideoStream", "stopVideoStream"}

QueuePosition(n) == [type |-> "queuePosition", position |-> n]

\* This step is the close of the connection that holds the operator session.
OperatorCloses(c) == Close(c) /\ adminClient # Null /\ clientId[c] = adminClient

\* This step is a selectUser that passes the role and the target tests.
Selects(c, u) ==
    /\ handleSelectUser(c, u)
    /\ adminClient # Null
    /\ IsAdminSender(c)
    /\ u \in DOMAIN clients
    /\ clients[u].type = "user"

\* C1: at most one open connection has a client of type 'admin' in the
\* registry at any time.
C1_AtMostOneOperator ==
    Cardinality({clients[i].ws : i \in {j \in DOMAIN clients :
                                           /\ clients[j].type = "admin"
                                           /\ Open(j)}}) <= 1

\* C2: activeChats is symmetric: the partner of the partner of A is A
\* (shown where every connection joined once).
C2_PairingSymmetric ==
    OneEach =>
        \A a \in DOMAIN activeChats :
            /\ activeChats[a] \in DOMAIN activeChats
            /\ activeChats[activeChats[a]] = a

\* C3: no chat or control message addressed to an open connection is
\* discarded because a videoFrame was sent to the same connection: a step
\* never shifts such a message out of a lane that then holds a videoFrame
\* (shown where every connection joined once).
C3_ControlNotDisplacedByFrame ==
    OneEach =>
        \A d \in dropped :
            ~ /\ d.msg.type \in LatencySensitive
              /\ Lane(d.id) # <<>>
              /\ Lane(d.id)[1].type = "videoFrame"

\* C4: the lane of every client holds at most one pending message.
C4_LaneAtMostOne ==
    \A i \in 1..Len(messageQueues) : Len(messageQueues[i].queue) <= 1

\* A send found the lane full: the pending message was shifted out and the
\* lane holds the new one.
C4_Witness ==
    \E d \in dropped : Len(Lane(d.id)) = 1 /\ Lane(d.id)[1] # d.msg

\* C5: latest wins. A frame relayed to an open client is the only content of
\* its lane afterwards; a pending frame F1 either stays pending, or goes with
\* its client, or is the message the tick hands to the transport (which
\* hands over pending messages only), or is replaced by the later message F2
\* and is then handed to nobody.
C5_LatestWins ==
    [][ /\ \A c \in Conns, toId \in Ids, f \in Frames :
            ( /\ handleVideoFrame(c, toId, f)
              /\ clientId[c] \in DOMAIN clients
              /\ clients[clientId[c]].type = "user"
              /\ Open(toId) )
            => LaneAfter(toId) = << [type |-> "videoFrame", frame |-> f,
                                 from |-> clientId[c], priority |-> FALSE] >>
        /\ \A id \in DOMAIN clients :
            LET q  == Lane(id)
                ws == clients[id].ws
            IN  (q # <<>> /\ q[1].type = "videoFrame" /\ Open(id))
                => \/ LaneAfter(id) = q
                   \/ id \notin DOMAIN clients'
                   \/ /\ LaneAfter(id) = <<>>
                      /\ \E k \in 1..Len(sent'[ws]) : sent'[ws][k] = q[1]
                      /\ \A k \in 1..Len(sent'[ws]) :
                             \E j \in DOMAIN clients :
                                 /\ clients[j].ws = ws
                                 /\ Lane(j) # <<>>
                                 /\ sent'[ws][k] = Stringify(Lane(j)[1], chatHistory)
                   \/ /\ Len(LaneAfter(id)) = 1
                      /\ [id |-> id, msg |-> q[1]] \in dropped'
                      /\ \A k \in 1..Len(sent'[ws]) : sent'[ws][k] # q[1]
      ]_vars

\* Frame F1 was pending, frame F2 was sent before a tick: F1 is shifted out,
\* F2 is pending.
C5_Witness ==
    \E d \in dropped :
        /\ d.msg.type = "videoFrame"
        /\ Len(Lane(d.id)) = 1
        /\ Lane(d.id)[1].type = "videoFrame"
        /\ Lane(d.id)[1] # d.msg

\* C6: after a step that changes userQueue, the position last reported to
\* each queued open client is its 1-based index in userQueue (shown where
\* every connection joined once).
C6_PositionsContiguous ==
    [][ (OneEach /\ userQueue' # userQueue) =>
          \A i \in 1..Len(userQueue') :
              IsOpen(clients', readyState', userQueue'[i])
              => LaneAfter(userQueue'[i]) = << QueuePosition(i) >>
      ]_vars

\* C7: across every step, the history stored under each key is a prefix of
\* the history stored under it afterwards.
C7_HistoryAppendOnly ==
    [][ \A k \in DOMAIN chatHistory :
            /\ k \in DOMAIN chatHistory'
            /\ IsPrefix(chatHistory[k], chatHistory'[k])
      ]_vars

\* A key with two entries, the second recorded after the pairing was started
\* again over the existing history.
C7_Witness ==
    OneEach /\ \E k \in DOMAIN chatHistory :
        /\ Len(chatHistory[k]) >= 2
        /\ Len(Lane(k[2])) = 1
        /\ Lane(k[2])[1].type = "chatStarted"
        /\ Lane(k[2])[1].messages = k

\* C8: after a successful selectUser, a chatStarted message is on its way to
\* the operator and to the participant (pending in the lane of each one
\* whose connection is open; shown where every connection joined once).
C8_BothGetChatStarted ==
    [][ \A c \in Conns, u \in Ids :
            (OneEach /\ Selects(c, u)) =>
                \A p \in {adminClient, u} :
                    Open(p) => /\ LaneAfter(p) # <<>>
                               /\ LaneAfter(p)[1].type = "chatStarted"
      ]_vars

\* C9: right after the disconnect of the operator is processed, userQueue
\* and activeChats are empty, adminClient is null and the operator's entry
\* is gone from clients.
C9_OperatorGone ==
    [][ \A c \in Conns :
            OperatorCloses(c) =>
                /\ userQueue' = <<>>
                /\ activeChats' = EmptyMap
                /\ adminClient' = Null
                /\ clientId[c] \notin DOMAIN clients'
      ]_vars

\* The operator left while paired: its partner's chatEnded was shifted out
\* by queuePosition 0, and nothing is left of the session.
C9_Witness ==
    /\ OneEach
    /\ adminClient = Null
    /\ userQueue = <<>>
    /\ \E c \in Conns : readyState[c] = "CLOSED" /\ clientId[c] \notin DOMAIN clients
    /\ \E d \in dropped :
           /\ d.msg.type = "chatEnded"
           /\ Lane(d.id) = << QueuePosition(0) >>

\* C10: after the disconnect of the operator, a chatEnded message is on its
\* way to every open participant it was paired with, and queuePosition 0 to
\* every open participant still registered (shown where every connection
\* joined once).
C10_PartnerAndQueueNotified ==
    [][ \A c \in Conns :
            (OneEach /\ OperatorCloses(c)) =>
                /\ \A b \in (DOMAIN activeChats) \ {adminClient} :
                       IsOpen(clients', readyState', b)
                       => \E k \in 1..Len(LaneAfter(b)) :
                              LaneAfter(b)[k].type = "chatEnded"
                /\ \A u \in DOMAIN clients' :
                       (clients'[u].type = "user"
                            /\ IsOpen(clients', readyState', u))
                       => \E k \in 1..Len(LaneAfter(u)) :
                              LaneAfter(u)[k] = QueuePosition(0)
      ]_vars

\* C11: a selectUser from a connection that has not registered, or whose
\* client is of type 'user', changes no broker state (clients, adminClient,
\* userQueue, activeChats, chatHistory, the lanes) and hands nothing to any
\* transport.
C11_UnauthorizedSelectInert ==
    [][ \A c \in Conns, u \in Ids \cup {Null} :
            ( /\ handleSelectUser(c, u)
              /\ \/ clientId[c] \notin DOMAIN clients
                 \/ clients[clientId[c]].type = "user" )
            => /\ UNCHANGED <<readyState, clients, adminClient, userQueue,
                              activeChats, chatHistory, messageQueues>>
               /\ sent' = NoSent
               /\ dropped' = {}
      ]_vars

\* A registered participant, an operator and a non-empty queue, with
\* messages pending, after a step that handed nothing to any transport: the
\* state a participant's selectUser leaves as it found it.
C11_Witness ==
    /\ OneEach
    /\ adminClient # Null
    /\ userQueue # <<>>
    /\ messageQueues # <<>>
    /\ \E c \in Conns : /\ readyState[c] = "OPEN"
                        /\ clientId[c] \in DOMAIN clients
                        /\ clients[clientId[c]].type = "user"
    /\ sent = NoSent
    /\ dropped = {}

\* No identifier occurs twice in the array.
NoRepeat(s) == \A i, j \in 1..Len(s) : s[i] = s[j] => i = j

\* C12: every identifier in userQueue, and every key and partner in
\* activeChats, is the identifier of a client in the registry (shown where
\* every connection joined once).
C12_ReferencesRegistered ==
    OneEach =>
        /\ \A i \in 1..Len(userQueue) : userQueue[i] \in DOMAIN clients
        /\ \A a \in DOMAIN activeChats :
               /\ a \in DOMAIN clients
               /\ activeChats[a] \in DOMAIN clients

\* C13: userQueue holds no identifier more than once (shown where every
\* connection joined once).
C13_QueueNoDuplicates ==
    OneEach => NoRepeat(userQueue)

\* C14: a registered participant whose connection is open is in userQueue
\* if and only if it has no pairing entry and an operator session exists
\* (shown where every connection joined once).
C14_QueuedIffIdle ==
    OneEach =>
        \A u \in DOMAIN clients :
            (clients[u].type = "user" /\ Open(u))
            => ( (\E i \in 1..Len(userQueue) : userQueue[i] = u)
                 <=> (u \notin DOMAIN activeChats /\ adminClient # Null) )

\* C15: at most one pairing is active: at most one participant has a
\* pairing entry, and the operator is the partner of at most one participant
\* (shown where every connection joined once).
C15_AtMostOnePairing ==
    OneEach =>
        /\ Cardinality({u \in (DOMAIN activeChats) \cap (DOMAIN clients) :
                            clients[u].type = "user"}) <= 1
        /\ Cardinality({u \in DOMAIN activeChats :
                            /\ adminClient # Null
                            /\ u # adminClient
                            /\ activeChats[u] = adminClient}) <= 1

\* This step handles a join as 'admin' while an operator session exists.
RejectedJoin(c) == handleJoin(c, c, "admin") /\ adminClient # Null

\* This step is the close of a connection whose join as 'admin' was rejected.
RejectedCloses(c) ==
    /\ Close(c)
    /\ readyState[c] = "CLOSING"
    /\ clientId[c] \in DOMAIN clients
    /\ clients[clientId[c]].type = "admin"
    /\ clientId[c] # adminClient

\* C16: the rejection of a second operator is scoped to the offending
\* connection: the rejected join, and the close of the rejected connection,
\* leave adminClient, userQueue and activeChats as they were, leave the lane
\* of every other client as it was, and hand nothing to the transport of any
\* other connection (shown where every connection joined once).
C16_RoleConflictScoped ==
    [][ \A c \in Conns :
            (OneEach /\ (RejectedJoin(c) \/ RejectedCloses(c)))
            => /\ UNCHANGED <<adminClient, userQueue, activeChats>>
               /\ \A id \in DOMAIN clients :
                      clients[id].ws # c => LaneAfter(id) = Lane(id)
               /\ \A d \in Conns : d # c => sent'[d] = <<>>
      ]_vars

\* Client p and the operator are each other's partner.
PairedWithOperator(p) ==
    /\ adminClient # Null
    /\ p \in DOMAIN clients
    /\ clients[p].type = "user"
    /\ p \in DOMAIN activeChats
    /\ activeChats[p] = adminClient
    /\ adminClient \in DOMAIN activeChats
    /\ activeChats[adminClient] = p

\* A message of the given type is pending for the client after the step.
PendingAfter(id, type) ==
    \E k \in 1..Len(LaneAfter(id)) : LaneAfter(id)[k].type = type

\* C17: when the operator sends endChat naming its partner P, both pairing
\* entries are removed, P is appended to the tail of userQueue, and a
\* chatEnded message and P's new position are on their way to P if its
\* connection is open (shown where every connection joined once).
C17_OperatorEndsChat ==
    [][ \A c \in Conns, p \in Ids :
            ( /\ OneEach
              /\ handleEndChat(c, p)
              /\ clientId[c] = adminClient
              /\ PairedWithOperator(p) )
            => /\ p \notin DOMAIN activeChats'
               /\ adminClient \notin DOMAIN activeChats'
               /\ userQueue' = Append(userQueue, p)
               /\ Open(p) => /\ PendingAfter(p, "chatEnded")
                             /\ \E k \in 1..Len(LaneAfter(p)) :
                                    LaneAfter(p)[k] =
                                        QueuePosition(Len(userQueue'))
      ]_vars

\* C18: when a participant's connection closes: if it was queued it is
\* removed from userQueue and every remaining queued client is sent its new
\* position (shown where userQueue holds no identifier twice); if it was
\* paired with the operator both pairing entries are removed and a chatEnded
\* message is on its way to the operator if its connection is open (shown
\* where every connection joined once).
C18_ParticipantDisconnects ==
    [][ \A c \in Conns :
            LET p == clientId[c]
            IN  ( /\ OneEach
                  /\ Close(c)
                  /\ p \in DOMAIN clients
                  /\ clients[p].type = "user" )
                => /\ (NoRepeat(userQueue) /\ IndexOf(userQueue, p) > 0)
                      => /\ userQueue' = Splice(userQueue, IndexOf(userQueue, p))
                         /\ \A i \in 1..Len(userQueue') :
                                IsOpen(clients', readyState', userQueue'[i])
                                => LaneAfter(userQueue'[i]) = << QueuePosition(i) >>
                   /\ PairedWithOperator(p)
                      => /\ p \notin DOMAIN activeChats'
                         /\ adminClient \notin DOMAIN activeChats'
                         /\ Open(adminClient)
                            => PendingAfter(adminClient, "chatEnded")
      ]_vars

\* C19: when a participant paired with the operator sends endChat, both
\* pairing entries are removed and the participant is appended to the tail of
\* userQueue (shown where every connection joined once).
C19_ParticipantEndsChat ==
    [][ \A c \in Conns, u \in Ids \cup {Null} :
            ( /\ OneEach
              /\ handleEndChat(c, u)
              /\ PairedWithOperator(clientId[c]) )
            => /\ clientId[c] \notin DOMAIN activeChats'
               /\ adminClient \notin DOMAIN activeChats'
               /\ userQueue' = Append(userQueue, clientId[c])
      ]_vars

\* The error message handleSelectUser sends for a target it does not find.
UserNotFound == [type |-> "error", message |-> "User not found"]

\* This step is a selectUser of the operator naming no registered
\* participant.
SelectsUnknown(c, u) ==
    /\ handleSelectUser(c, u)
    /\ adminClient # Null
    /\ clientId[c] = adminClient
    /\ (u \notin DOMAIN clients \/ clients[u].type # "user")

\* C20: a selectUser of the operator whose target is not a registered
\* participant leaves userQueue, activeChats and chatHistory as they were and
\* puts an error message on its way to the operator if its connection is
\* open; the pending error then stays pending until it is handed to the
\* operator's transport, as long as the operator stays registered and open
\* (shown where every connection joined once).
C20_SelectNotFound ==
    [][ /\ \A c \in Conns, u \in Ids \cup {Null} :
            (OneEach /\ SelectsUnknown(c, u))
            => /\ UNCHANGED <<userQueue, activeChats, chatHistory>>
               /\ Open(adminClient) => LaneAfter(adminClient) = << UserNotFound >>
        /\ (OneEach /\ OneEach' /\ adminClient # Null /\ Open(adminClient)
                /\ Lane(adminClient) = << UserNotFound >>)
            => \/ LaneAfter(adminClient) = << UserNotFound >>
               \/ ~IsOpen(clients', readyState', adminClient)
               \/ \E k \in 1..Len(sent'[clients[adminClient].ws]) :
                      sent'[clients[adminClient].ws][k] = UserNotFound
      ]_vars

\* C21: an endChat of the operator whose target is not a registered
\* participant, or is not the operator's partner, leaves activeChats and
\* userQueue as they were (shown where every connection joined once).
C21_EndChatNotFound ==
    [][ \A c \in Conns, u \in Ids \cup {Null} :
            ( /\ OneEach
              /\ handleEndChat(c, u)
              /\ adminClient # Null
              /\ clientId[c] = adminClient
              /\ ~PairedWithOperator(u) )
            => UNCHANGED <<activeChats, userQueue>>
      ]_vars

\* The chat message handleChatMessage sends for a text of the sender.
ChatMessage(from, text) ==
    [type |-> "message", from |-> from, text |-> text, priority |-> TRUE]

\* C22: a chat message to a registered client whose connection is open is
\* handed to that connection's transport in the step that handles it, and
\* to no other; to a client that is not registered or not open nothing is
\* handed over. In both cases no lane changes, nothing is shifted out and
\* the sender is sent nothing.
C22_PriorityImmediateOrDropped ==
    [][ \A c \in Conns, toId \in Ids \cup {Null}, text \in Texts :
            ( /\ handleChatMessage(c, toId, text)
              /\ clientId[c] \in DOMAIN clients )
            => /\ messageQueues' = messageQueues
               /\ dropped' = {}
               /\ sent' = IF Open(toId)
                          THEN [NoSent EXCEPT ![clients[toId].ws] =
                                   << ChatMessage(clients[clientId[c]].username,
                                                  text) >>]
                          ELSE NoSent
      ]_vars

\* A chat message was handed to the transport of one connection while
\* another client has a message pending in its lane.
C22_Witness ==
    /\ OneEach
    /\ \E c \in Conns : /\ Len(sent[c]) = 1
                        /\ sent[c][1].type = "message"
    /\ messageQueues # <<>>

\* The client is registered and open and has a message pending.
Pending(id) == Open(id) /\ Lane(id) # <<>>

\* The clients of connection c that have a message pending.
PendingOn(c) == {id \in DOMAIN clients : clients[id].ws = c /\ Pending(id)}

\* C23: a tick takes the head of the lane of every open client that has a
\* message pending and hands it to the transport of that client, one message
\* per such client and no other message; it leaves every other lane as it
\* was. With the timer firing again and again, a lane of an open client does
\* not stay occupied forever: its message goes out at a tick, unless it is
\* replaced or the client goes first.
C23_TickDelivers ==
    /\ [][ Tick =>
             /\ \A id \in DOMAIN clients :
                    LaneAfter(id) = IF Pending(id) THEN Tail(Lane(id))
                                    ELSE Lane(id)
             /\ \A c \in Conns :
                    /\ Len(sent'[c]) = Cardinality(PendingOn(c))
                    /\ \A id \in PendingOn(c) :
                           \E k \in 1..Len(sent'[c]) :
                               sent'[c][k] =
                                   Stringify(Head(Lane(id)), chatHistory)
             /\ dropped' = {}
        ]_vars
    /\ \A id \in Ids : Pending(id) ~> ~Pending(id)

\* A tick has handed a pending video frame to the operator's transport and
\* emptied the lane.
C23_Witness ==
    /\ OneEach
    /\ \E id \in DOMAIN clients :
           /\ Lane(id) = <<>>
           /\ \E k \in 1..Len(sent[clients[id].ws]) :
                  sent[clients[id].ws][k].type = "videoFrame"

\* C24: only clients in the registry hold a pending low-priority entry:
\* every key of messageQueues is the identifier of a registered client.
C24_LanesOfRegisteredOnly ==
    \A i \in 1..Len(messageQueues) : messageQueues[i].id \in DOMAIN clients

\* The close of a registered connection removed its client while a client
\* of another connection was sent a new queue position: an entry is held for
\* that client and none for the removed one.
C24_Witness ==
    /\ OneEach
    /\ messageQueues # <<>>
    /\ \E c \in Conns : /\ readyState[c] = "CLOSED"
                        /\ clientId[c] # Null
                        /\ clientId[c] \notin DOMAIN clients
                        /\ ~mqHas(messageQueues, clientId[c])
                        /\ \E d \in dropped : d.msg.type = "queuePosition"

\* C25: a videoFrame is placed in a lane only when its sender is a
\* participant and the lane is the operator's: after every step, a frame
\* newly pending for a client other than its sender is pending for the
\* operator and comes from a client of type 'user' (shown where every
\* connection joined once).
C25_FramesToOperatorOnly ==
    [][ \A id \in DOMAIN clients' :
            ( /\ OneEach'
              /\ LaneAfter(id) # <<>>
              /\ LaneAfter(id) # Lane(id)
              /\ LaneAfter(id)[1].type = "videoFrame"
              /\ LaneAfter(id)[1].from # id )
            => /\ id = adminClient'
               /\ LaneAfter(id)[1].from \in DOMAIN clients'
               /\ clients'[LaneAfter(id)[1].from].type = "user"
      ]_vars

\* C26: a payload that cannot be parsed changes nothing in clients,
\* adminClient, userQueue, activeChats, chatHistory and the lanes, hands
\* nothing to any transport, and leaves the sender's socket and registration
\* as they were.
C26_MalformedDropped ==
    [][ \A c \in Conns :
            Malformed(c)
            => /\ UNCHANGED <<readyState, clientId, clients, adminClient,
                              userQueue, activeChats, chatHistory,
                              messageQueues>>
               /\ sent' = NoSent
               /\ dropped' = {}
      ]_vars

\* A paired participant with an open connection and lanes pending, after a
\* step that handed nothing to any transport: the state an unparseable
\* payload of that participant leaves as it found it.
C26_Witness ==
    /\ OneEach
    /\ messageQueues # <<>>
    /\ \E c \in Conns : /\ readyState[c] = "OPEN"
                        /\ PairedWithOperator(clientId[c])
    /\ sent = NoSent
    /\ dropped = {}

\* The array without the entries equal to x, the others in their order.
Without(s, x) == SelectSeq(s, LAMBDA y : y # x)

\* C27: a successful selectUser of the operator naming a queued participant
\* removes that participant from userQueue, keeps the others in their order,
\* and puts its new 1-based position on its way to every remaining queued
\* client whose connection is open (shown where every connection joined
\* once).
C27_SelectAnyQueued ==
    [][ \A c \in Conns, u \in Ids :
            ( /\ OneEach
              /\ Selects(c, u)
              /\ clientId[c] = adminClient
              /\ IndexOf(userQueue, u) > 0 )
            => /\ userQueue' = Without(userQueue, u)
               /\ \A i \in 1..Len(userQueue') :
                      IsOpen(clients', readyState', userQueue'[i])
                      => LaneAfter(userQueue'[i]) = << QueuePosition(i) >>
      ]_vars

\* The history stored under the key, empty when the key is absent.
HistoryOf(hist, key) == IF key \in DOMAIN hist THEN hist[key] ELSE <<>>

\* The low-priority messages the step has issued to the client: pending in
\* its lane afterwards, or shifted out of it during the step.
IssuedTo(id) ==
    {LaneAfter(id)[k] : k \in 1..Len(LaneAfter(id))}
        \cup {d.msg : d \in {e \in dropped' : e.id = id}}

\* C28: a chat message between the operator and a participant P, from
\* either side, is appended to the history stored under the one key
\* <<operator, P>>, and nothing else is recorded; and the chatStarted
\* message a selectUser of the operator issues to P carries the history
\* stored under that key.
C28_CanonicalKey ==
    [][ /\ \A c \in Conns, toId \in Ids, text \in Texts :
            LET from == clientId[c]
                p    == IF from = adminClient THEN toId ELSE from
                key  == <<adminClient, p>>
            IN  ( /\ handleChatMessage(c, toId, text)
                  /\ adminClient # Null
                  /\ from \in DOMAIN clients
                  /\ toId \in DOMAIN clients
                  /\ from = adminClient \/ toId = adminClient
                  /\ clients[p].type = "user" )
                => /\ key \in DOMAIN chatHistory'
                   /\ chatHistory'[key] =
                          Append(HistoryOf(chatHistory, key),
                                 [from |-> clients[from].username,
                                  text |-> text])
                   /\ \A k \in DOMAIN chatHistory' :
                          k # key => /\ k \in DOMAIN chatHistory
                                     /\ chatHistory'[k] = chatHistory[k]
        /\ \A c \in Conns, u \in Ids :
            (Selects(c, u) /\ clientId[c] = adminClient /\ Open(u))
            => \E m \in IssuedTo(u) :
                   /\ m.type = "chatStarted"
                   /\ Stringify(m, chatHistory').messages
                          = HistoryOf(chatHistory, <<adminClient, u>>)
      ]_vars

\* One key holds a message of the operator and a message of the
\* participant, and the participant's pending chatStarted carries both.
C28_Witness ==
    /\ OneEach
    /\ adminClient # Null
    /\ \E p \in DOMAIN clients :
           LET key == <<adminClient, p>>
           IN  /\ key \in DOMAIN chatHistory
               /\ Len(chatHistory[key]) = 2
               /\ chatHistory[key][1].from # chatHistory[key][2].from
               /\ Lane(p) # <<>>
               /\ Lane(p)[1].type = "chatStarted"
               /\ Stringify(Lane(p)[1], chatHistory).messages = chatHistory[key]

\* The registry entries whose socket is the connection c.
EntriesOf(c) == {id \in DOMAIN clients : clients[id].ws = c}

\* C29: a connection owns at most one registry entry at a time, and once
\* its close has been processed no registry entry of it remains, so that no
\* queue slot or pairing can name one.
C29_OneEntryPerConnection ==
    \A c \in Conns :
        /\ Cardinality(EntriesOf(c)) <= 1
        /\ readyState[c] = "CLOSED" => EntriesOf(c) = {}

\* The two clients are paired with each other.
PairedTogether(a, b) ==
    /\ a \in DOMAIN activeChats
    /\ b \in DOMAIN activeChats
    /\ activeChats[a] = b
    /\ activeChats[b] = a

\* C30: a chat message is handed to its target's transport and appended to
\* the history only if its sender and its target are paired with each other
\* when it is handled, so that every history key names the operator and a
\* participant (shown where every connection joined once and the target is
\* another client than the sender).
C30_ChatWithinPairing ==
    [][ \A c \in Conns, toId \in Ids, text \in Texts :
            ( /\ handleChatMessage(c, toId, text)
              /\ OneEach
              /\ toId # clientId[c]
              /\ \/ chatHistory' # chatHistory
                 \/ \E d \in Conns : sent'[d] # <<>> )
            => /\ PairedTogether(clientId[c], toId)
               /\ \A key \in DOMAIN chatHistory' :
                      /\ key[1] \in DOMAIN clients
                      /\ key[2] \in DOMAIN clients
                      /\ clients[key[1]].type = "admin"
                      /\ clients[key[2]].type = "user"
      ]_vars

\* The chatStarted message of the pairing with the partner is still waiting
\* in the lane of the client: issued by selectUser and not yet handed over.
ChatStartedWaiting(id, partner) ==
    \E k \in 1..Len(Lane(id)) :
        /\ Lane(id)[k].type = "chatStarted"
        /\ Lane(id)[k].with.id = partner

\* C31: a chat message of a pairing is never handed to the transport of a
\* party while the chatStarted message of that pairing is still waiting to
\* be handed to it (shown where every connection joined once).
C31_ChatStartedFirst ==
    [][ \A c \in Conns, toId \in Ids, text \in Texts :
            ( /\ handleChatMessage(c, toId, text)
              /\ OneEach
              /\ PairedTogether(clientId[c], toId)
              /\ Open(toId)
              /\ \E k \in 1..Len(sent'[clients[toId].ws]) :
                     sent'[clients[toId].ws][k].type = "message" )
            => ~ChatStartedWaiting(toId, clientId[c])
      ]_vars

\* C32: a selectUser from a connection that does not hold the operator
\* session, the connection of a rejected operator join included, leaves the
\* pairing relation and the waiting queue as they were (shown where every
\* connection joined once).
C32_OnlyOperatorSelects ==
    [][ \A c \in Conns, u \in Ids \cup {Null} :
            ( /\ handleSelectUser(c, u)
              /\ OneEach
              /\ (adminClient = Null \/ clientId[c] # adminClient) )
            => UNCHANGED <<activeChats, userQueue>>
      ]_vars

====
